---- MODULE Spec2Model ----
(***************************************************************************)
(* A model of the adbeacon targeting engine and its hybrid cache:          *)
(*   - the dimension processors and CampaignMatcher (internal/models),     *)
(*   - memoryCache, redisCache and HybridCache (internal/cache),           *)
(*   - CachedRepository with its detached materialization task,            *)
(*   - DeliveryService.GetCampaigns (internal/service).                    *)
(*                                                                         *)
(* Go strings that the code normalizes (request values, rule values) are   *)
(* sequences of one-character strings, so that strings.ToLower and         *)
(* strings.TrimSpace are computed character by character.  Identifiers    *)
(* the code never inspects (campaign ids, dimension names) are atoms.      *)
(* Time is counted in minutes.                                             *)
(***************************************************************************)
EXTENDS Integers, Sequences, FiniteSets, TLC

VARIABLES
    now,        \* time.Now(), in minutes
    registry,   \* DimensionRegistry.processors: the registered dimension names
    mem,        \* memoryCache.items: key -> cacheItem
    redis,      \* the keys held by the Redis server: key -> entry
    stats,      \* HybridCache.stats
    cfg,        \* CacheConfig: EnableMemory, EnableRedis, MemoryCacheSize
    db,         \* the rows the source of truth returns
    tasks,      \* the detached materialization goroutines still running
    last,       \* the operation that ran last, with its arguments and result
    campaign,   \* matcher harness: the campaign handed to MatchesRequest
    request,    \* matcher harness: the request handed to MatchesRequest
    matched,    \* matcher harness: the result of MatchesRequest
    health,     \* health harness: the ping's outcome and the CacheHealth report
    norm,       \* normalization harness: a value and its normalizations
    mu          \* lock harness: where each goroutine stands at memoryCache.mu

vars == <<now, registry, mem, redis, stats, cfg, db, tasks, last,
          campaign, request, matched, health, norm, mu>>

sysVars == <<now, mem, redis, stats, cfg, db, tasks, last>>
harness == <<registry, campaign, request, matched, health, norm, mu>>

-----------------------------------------------------------------------------
(* Bounds of the model *)

MaxRules == 2      \* rules per campaign in the matcher harness
MaxTime == 3       \* minutes the clock may reach
MaxOps == 5        \* cache reads counted before the clients stop
MaxTasks == 1      \* materialization goroutines in flight
MaxSize == 3       \* the larger MemoryCacheSize tried
SnapshotTTL == 2   \* the ttl handed to NewCachedRepository, in minutes
DefaultTTL == 2    \* CacheConfig.DefaultTTL, in minutes
MaxHealthSize == 10 \* the largest MemoryCacheSize in the health harness
MaxLen == 3        \* characters of a value in the normalization harness
MaxHours == 2      \* hours the clock may reach in the registry harness
MaxCalls == 2      \* calls of MatchesRequest in the registry harness
MaxConcurrent == 2 \* materialization goroutines running side by side
MaxThreads == 3    \* goroutines calling the local tier in the lock harness

-----------------------------------------------------------------------------
(* Strings *)

Range(s) == {s[i] : i \in 1..Len(s)}

UpperLetters == <<"A", "B", "C", "D", "E", "F", "G", "H", "I", "J", "K", "L", "M",
                  "N", "O", "P", "Q", "R", "S", "T", "U", "V", "W", "X", "Y", "Z">>
LowerLetters == <<"a", "b", "c", "d", "e", "f", "g", "h", "i", "j", "k", "l", "m",
                  "n", "o", "p", "q", "r", "s", "t", "u", "v", "w", "x", "y", "z">>

\* unicode.ToLower of one character
LowerChar(c) ==
    IF \E i \in 1..26 : UpperLetters[i] = c
    THEN LowerLetters[CHOOSE i \in 1..26 : UpperLetters[i] = c]
    ELSE c

ToLower(s) == [i \in 1..Len(s) |-> LowerChar(s[i])]

RECURSIVE TrimLeft(_)
TrimLeft(s) == IF s # <<>> /\ Head(s) = " " THEN TrimLeft(Tail(s)) ELSE s

RECURSIVE TrimRight(_)
TrimRight(s) ==
    IF s # <<>> /\ s[Len(s)] = " " THEN TrimRight(SubSeq(s, 1, Len(s) - 1)) ELSE s

TrimSpace(s) == TrimRight(TrimLeft(s))

Digits == <<"0", "1", "2", "3", "4", "5", "6", "7", "8", "9">>

IsDigit(c) == \E i \in 1..10 : Digits[i] = c
DigitValue(c) == (CHOOSE i \in 1..10 : Digits[i] = c) - 1

RECURSIVE DigitsValue(_)
DigitsValue(s) ==
    IF s = <<>> THEN 0
    ELSE 10 * DigitsValue(SubSeq(s, 1, Len(s) - 1)) + DigitValue(s[Len(s)])

\* strconv.Atoi: an optional sign, then one or more decimal digits
Atoi(s) ==
    LET signed == s # <<>> /\ s[1] \in {"+", "-"}
        body == IF signed THEN Tail(s) ELSE s
        ok == body # <<>> /\ \A i \in 1..Len(body) : IsDigit(body[i])
    IN  [ok |-> ok,
         n |-> IF ~ok THEN 0
               ELSE IF signed /\ s[1] = "-" THEN 0 - DigitsValue(body)
               ELSE DigitsValue(body)]

\* strconv.Itoa of a natural number
RECURSIVE Itoa(_)
Itoa(n) ==
    IF n < 10 THEN <<Digits[n + 1]>>
    ELSE Append(Itoa(n \div 10), Digits[(n % 10) + 1])

\* strings.Split(s, "-")
RECURSIVE SplitDash(_)
SplitDash(s) ==
    IF \A i \in 1..Len(s) : s[i] # "-" THEN <<s>>
    ELSE LET p == CHOOSE i \in 1..Len(s) :
                    s[i] = "-" /\ \A j \in 1..(i - 1) : s[j] # "-"
         IN  <<SubSeq(s, 1, p - 1)>> \o SplitDash(SubSeq(s, p + 1, Len(s)))

-----------------------------------------------------------------------------
(* internal/models: campaigns, rules, requests *)

StatusActive == "ACTIVE"
StatusInactive == "INACTIVE"
RuleTypeInclude == "include"
RuleTypeExclude == "exclude"
DimensionCountry == "country"
DimensionOS == "os"
DimensionApp == "app"
DimensionState == "state"
DimensionDeviceType == "device_type"
DimensionAgeGroup == "age_group"
DimensionTimeOfDay == "time_of_day"

IsActive(c) == c.Status = StatusActive

ToResponse(c) == c.ID

\* Validate without the test of the country's length
Validate_NoLength(req) ==
    IF req.Country = <<>> THEN "country is required"
    ELSE IF req.OS = <<>> THEN "os is required"
    ELSE IF req.App = <<>> THEN "app is required"
    ELSE ""

\* DeliveryRequest.Validate: "" when the request is valid, else the message
Validate(req) ==
    IF req.Country = <<>> THEN "country is required"
    ELSE IF Len(req.Country) # 2 THEN "country must be a 2-letter code"
    ELSE IF req.OS = <<>> THEN "os is required"
    ELSE IF req.App = <<>> THEN "app is required"
    ELSE ""

\* DeliveryRequest.NormalizeValues
NormalizeValues(req) ==
    [Country |-> ToLower(TrimSpace(req.Country)),
     OS      |-> ToLower(TrimSpace(req.OS)),
     App     |-> TrimSpace(req.App)]

-----------------------------------------------------------------------------
(* internal/models: dimension processors and registry *)

\* NewDimensionRegistry registers the three built-in processors
NewDimensionRegistry == {DimensionCountry, DimensionOS, DimensionApp}

\* DimensionRegistry.RegisterProcessor
RegisterProcessor(reg, name) == reg \cup {name}

\* time.Now().Hour() with the clock at minute t
Hour(t) == (t \div 60) % 24

\* DimensionProcessor.GetValue of the processor registered under name d; the
\* state of a request that carries none is the empty string
GetValue(d, req) ==
    CASE d = DimensionCountry -> req.Country
      [] d = DimensionOS -> req.OS
      [] d = DimensionApp -> req.App
      [] d = DimensionState -> IF "State" \in DOMAIN req THEN req.State ELSE <<>>
      [] d = DimensionTimeOfDay -> Itoa(Hour(now))
      [] OTHER -> <<>>

\* a NormalizeValue that takes one blank from each end
NormalizeValue_TrimOne(d, v) ==
    LET l == IF v # <<>> /\ Head(v) = " " THEN Tail(v) ELSE v
        r == IF l # <<>> /\ l[Len(l)] = " " THEN SubSeq(l, 1, Len(l) - 1) ELSE l
    IN  IF d \in {DimensionApp, DimensionTimeOfDay} THEN r ELSE ToLower(r)

\* DimensionProcessor.NormalizeValue of the processor registered under name d
NormalizeValue(d, v) ==
    IF d \in {DimensionApp, DimensionTimeOfDay} THEN TrimSpace(v)
    ELSE ToLower(TrimSpace(v))

\* TimeOfDayProcessor.MatchesRule, one rule value: an hour or a range of hours
HourMatches(currentHour, ruleValue) ==
    LET v == TrimSpace(ruleValue)
        parts == SplitDash(v)
    IN  IF Len(parts) > 1
        THEN /\ Len(parts) = 2
             /\ Atoi(parts[1]).ok /\ Atoi(parts[2]).ok
             /\ currentHour >= Atoi(parts[1]).n
             /\ currentHour <= Atoi(parts[2]).n
        ELSE Atoi(v).ok /\ currentHour = Atoi(v).n

\* MatchesRule that looks at the first value of the rule only
MatchesRule_FirstValue(d, requestValue, rule) ==
    /\ Len(rule.Values) > 0
    /\ NormalizeValue(d, requestValue) = NormalizeValue(d, rule.Values[1])

\* DimensionProcessor.MatchesRule of the processor registered under name d
MatchesRule(d, requestValue, rule) ==
    IF d = DimensionTimeOfDay
    THEN /\ Atoi(requestValue).ok
         /\ \E i \in 1..Len(rule.Values) :
                HourMatches(Atoi(requestValue).n, rule.Values[i])
    ELSE \E i \in 1..Len(rule.Values) :
            NormalizeValue(d, requestValue) = NormalizeValue(d, rule.Values[i])

\* getCountryStatesMapping
countryStates(country) ==
    IF country = <<"i", "n">> THEN {<<"g", "j">>, <<"m", "a">>, <<"k", "a">>} ELSE {}

\* StateProcessor.MatchesRuleWithDependencies
MatchesRuleWithDependencies(rule, req) ==
    LET country == ToLower(TrimSpace(req.Country))
        requestState == NormalizeValue(DimensionState, GetValue(DimensionState, req))
    IN  /\ countryStates(country) # {}
        /\ requestState # <<>>
        /\ \E st \in countryStates(country) : requestState = ToLower(st)
        /\ MatchesRule(DimensionState, requestState, rule)

\* TargetingRule.NormalizeValues: processor normalization, or the lowercase
\* and trim fallback when the dimension has no processor
RuleNormalizeValues(reg, rule) ==
    [i \in 1..Len(rule.Values) |->
        IF rule.Dimension \in reg
        THEN NormalizeValue(rule.Dimension, rule.Values[i])
        ELSE ToLower(TrimSpace(rule.Values[i]))]

-----------------------------------------------------------------------------
(* internal/models: CampaignMatcher *)

RulesOf(rules, d, t) ==
    SelectSeq(rules, LAMBDA r : r.Dimension = d /\ r.RuleType = t)

\* dimensionMatches without its exclude loop
dimensionMatches_NoExclude(req, rules, d) ==
    LET includeRules == RulesOf(rules, d, RuleTypeInclude)
        requestValue == GetValue(d, req)
    IN  IF requestValue = <<>>
        THEN Len(includeRules) = 0
        ELSE Len(includeRules) > 0 =>
                \E i \in 1..Len(includeRules) :
                    MatchesRule(d, requestValue, includeRules[i])

\* dimensionMatches that fails on an empty request value whatever the rules
dimensionMatches_EmptyFails(req, rules, d) ==
    LET includeRules == RulesOf(rules, d, RuleTypeInclude)
        excludeRules == RulesOf(rules, d, RuleTypeExclude)
        requestValue == GetValue(d, req)
    IN  /\ requestValue # <<>>
        /\ (Len(includeRules) > 0 =>
                \E i \in 1..Len(includeRules) :
                    MatchesRule(d, requestValue, includeRules[i]))
        /\ \A i \in 1..Len(excludeRules) :
                ~MatchesRule(d, requestValue, excludeRules[i])

\* CampaignMatcher.dimensionMatches for the rules of dimension d
dimensionMatches(req, rules, d) ==
    LET includeRules == RulesOf(rules, d, RuleTypeInclude)
        excludeRules == RulesOf(rules, d, RuleTypeExclude)
        requestValue == GetValue(d, req)
    IN  IF requestValue = <<>>
        THEN Len(includeRules) = 0
        ELSE /\ (Len(includeRules) > 0 =>
                    \E i \in 1..Len(includeRules) :
                        MatchesRule(d, requestValue, includeRules[i]))
             /\ \A i \in 1..Len(excludeRules) :
                    ~MatchesRule(d, requestValue, excludeRules[i])

\* MatchesRequest that rejects a campaign with a rule on an unknown dimension
MatchesRequest_UnknownFails(reg, c, req) ==
    IF ~IsActive(c) THEN FALSE
    ELSE IF Len(c.Rules) = 0 THEN TRUE
    ELSE \A d \in {c.Rules[i].Dimension : i \in 1..Len(c.Rules)} :
            d \in reg /\ dimensionMatches(req, c.Rules, d)

\* CampaignMatcher.MatchesRequest with cm.Registry = reg
MatchesRequest(reg, c, req) ==
    IF ~IsActive(c) THEN FALSE
    ELSE IF Len(c.Rules) = 0 THEN TRUE
    ELSE \A d \in {c.Rules[i].Dimension : i \in 1..Len(c.Rules)} :
            d \in reg => dimensionMatches(req, c.Rules, d)

-----------------------------------------------------------------------------
(* internal/cache: memoryCache *)

EmptyMap == [k \in {} |-> {}]
Restrict(m, D) == [k \in D |-> m[k]]
Put(m, k, v) == [x \in DOMAIN m \cup {k} |-> IF x = k THEN v ELSE m[x]]

\* the extra lifetime of posting lists: indexTTL := cr.ttl + time.Minute
IndexGrace == 1

MemSnapshotKey == <<"active_campaigns">>
IndexKey(dimension, value) == <<"index", dimension, value>>
RedisSnapshotKey == <<"adbeacon:campaigns:active">>
RedisIndexKey(key) == <<"adbeacon:index">> \o key

\* A cacheItem.  firstExp is bookkeeping, not a field of the code: the absolute
\* expiry the payload got when a Set call first wrote it to the cache.
Item(data, expiresAt, firstExp) ==
    [data |-> data, expiresAt |-> expiresAt, firstExp |-> firstExp]

NoItem == Item(<<>>, 0, 0)

\* cacheItem.isExpired at time t: time.Now().After(ci.expiresAt)
isExpired(item, t) == t > item.expiresAt

\* the getters without the isExpired test
mc_get_NoExpiry(m, key, t) ==
    IF key \in DOMAIN m
    THEN [found |-> TRUE, item |-> m[key]]
    ELSE [found |-> FALSE, item |-> NoItem]

\* memoryCache.getActiveCampaigns and getCampaignIndex on the items m
mc_get(m, key, t) ==
    IF key \in DOMAIN m /\ ~isExpired(m[key], t)
    THEN [found |-> TRUE, item |-> m[key]]
    ELSE [found |-> FALSE, item |-> NoItem]

\* evictIfNeeded without its second loop
evictIfNeeded_SweepOnly(m, maxSize, t) ==
    {Restrict(m, {k \in DOMAIN m : ~isExpired(m[k], t)})}

\* memoryCache.evictIfNeeded: the maps it can leave.  The second loop ranges
\* over a Go map, whose iteration order is not defined: any count keys may go.
evictIfNeeded(m, maxSize, t) ==
    LET live == Restrict(m, {k \in DOMAIN m : ~isExpired(m[k], t)})
        n == Cardinality(DOMAIN live)
    IN  IF n > maxSize
        THEN {Restrict(live, DOMAIN live \ E) :
                E \in {X \in SUBSET DOMAIN live : Cardinality(X) = n - maxSize}}
        ELSE {live}

\* memoryCache.setActiveCampaigns and setCampaignIndex: the maps they can leave
mc_set(m, key, data, ttl, firstExp, maxSize, t) ==
    evictIfNeeded(Put(m, key, Item(data, t + ttl, firstExp)), maxSize, t)

\* memoryCache.clear
mc_clear == EmptyMap

\* one tick of memoryCache.cleanup
mc_cleanup(m, t) == Restrict(m, {k \in DOMAIN m : ~isExpired(m[k], t)})

\* memoryCache.size
mc_size(m) == Cardinality(DOMAIN m)

-----------------------------------------------------------------------------
(* internal/cache: redisCache.  Payloads cross as JSON. *)

\* json.Marshal of a TargetingRule and of a CampaignWithRules (rules,omitempty)
MarshalRule(r) ==
    [dimension |-> r.Dimension, rule_type |-> r.RuleType, values |-> r.Values]

MarshalCampaign(c) ==
    IF Len(c.Rules) = 0
    THEN [cid |-> c.ID, status |-> c.Status]
    ELSE [cid |-> c.ID, status |-> c.Status,
          rules |-> [i \in 1..Len(c.Rules) |-> MarshalRule(c.Rules[i])]]

MarshalCampaigns(cs) == [i \in 1..Len(cs) |-> MarshalCampaign(cs[i])]

\* json.Unmarshal into []models.CampaignWithRules
UnmarshalRule(j) ==
    [Dimension |-> j.dimension, RuleType |-> j.rule_type, Values |-> j.values]

UnmarshalCampaign(j) ==
    [ID |-> j.cid, Status |-> j.status,
     Rules |-> IF "rules" \in DOMAIN j
               THEN [i \in 1..Len(j.rules) |-> UnmarshalRule(j.rules[i])]
               ELSE <<>>]

UnmarshalCampaigns(js) == [i \in 1..Len(js) |-> UnmarshalCampaign(js[i])]

\* redisCache.getActiveCampaigns / getCampaignIndex: the results the call can
\* have.  err is "" (a value), "miss" (redis.Nil), "redis" (transport error)
\* or "ctx" (the caller's context was cancelled or its deadline passed).
rc_get(r, rkey) ==
    {[err |-> "redis", item |-> NoItem], [err |-> "ctx", item |-> NoItem]} \cup
    {IF rkey \in DOMAIN r
     THEN [err |-> "", item |-> r[rkey]]
     ELSE [err |-> "miss", item |-> NoItem]}

\* redisCache.setActiveCampaigns / setCampaignIndex: SET key data EX ttl
rc_set(r, rkey, json, ttl, t) ==
    {[err |-> "redis", redis |-> r],
     [err |-> "", redis |-> Put(r, rkey, Item(json, t + ttl, t + ttl))]}

\* redisCache.clear: KEYS adbeacon:* then DEL
rc_clear(r) ==
    {[err |-> "redis", redis |-> r], [err |-> "", redis |-> EmptyMap]}

\* the Redis server drops a key once its expiry has passed
rc_expire(r, t) == Restrict(r, {k \in DOMAIN r : ~isExpired(r[k], t)})

-----------------------------------------------------------------------------
(* internal/cache: HybridCache.  A cache state c is [mem, redis, stats];    *)
(* every operation yields the set of outcomes it can have, one for each     *)
(* way the Redis calls and the eviction inside it can go.                   *)

\* HybridCache.recordHit
recordHit(s) == [s EXCEPT !.Hits = @ + 1, !.TotalOps = @ + 1]

\* recordMiss that forgets TotalOps
recordMiss_NoTotal(s) == [s EXCEPT !.Misses = @ + 1]

\* HybridCache.recordMiss
recordMiss(s) == [s EXCEPT !.Misses = @ + 1, !.TotalOps = @ + 1]

\* recordError that counts nothing
recordError_Noop(s) == s

\* HybridCache.recordError
recordError(s) == [s EXCEPT !.Errors = @ + 1]

ErrCacheMiss == "cache miss"

\* The body shared by HybridCache.GetActiveCampaigns and GetCampaignIndex:
\* memory first, then Redis with a warm-up of the memory tier, then a miss.
\* decode(json) is the json.Unmarshal of the payload type of the key.
hybridGet(c, key, rkey, t) ==
    LET m == IF cfg.EnableMemory THEN mc_get(c.mem, key, t)
             ELSE [found |-> FALSE, item |-> NoItem]
        decode(json) == IF key = MemSnapshotKey THEN UnmarshalCampaigns(json)
                        ELSE json
        miss(rerr) == [c |-> [c EXCEPT !.stats = recordMiss(@)], err |-> ErrCacheMiss,
                       data |-> <<>>, tier |-> "none", firstExp |-> 0, rerr |-> rerr]
    IN  IF m.found
        THEN {[c |-> [c EXCEPT !.stats = recordHit(@)], err |-> "",
               data |-> m.item.data, tier |-> "memory",
               firstExp |-> m.item.firstExp, rerr |-> "none"]}
        ELSE IF cfg.EnableRedis
        THEN UNION {
               IF rr.err = ""
               THEN {[c |-> [mem |-> m2, redis |-> c.redis,
                             stats |-> recordHit(c.stats)],
                      err |-> "", data |-> decode(rr.item.data), tier |-> "redis",
                      firstExp |-> rr.item.firstExp, rerr |-> ""] :
                        m2 \in IF cfg.EnableMemory
                               THEN mc_set(c.mem, key, decode(rr.item.data), DefaultTTL,
                                           rr.item.firstExp, cfg.MemoryCacheSize, t)
                               ELSE {c.mem}}
               ELSE {miss(rr.err)} : rr \in rc_get(c.redis, rkey)}
        ELSE {miss("none")}

\* The body shared by HybridCache.SetActiveCampaigns and SetCampaignIndex
hybridSet(c, key, rkey, data, json, ttl, t) ==
    LET mems == IF cfg.EnableMemory
                THEN mc_set(c.mem, key, data, ttl, t + ttl, cfg.MemoryCacheSize, t)
                ELSE {c.mem}
        reds == IF cfg.EnableRedis THEN rc_set(c.redis, rkey, json, ttl, t)
                ELSE {[err |-> "", redis |-> c.redis]}
    IN  {[c |-> [mem |-> m2, redis |-> rr.redis,
                 stats |-> IF rr.err # "" THEN recordError(c.stats) ELSE c.stats],
          err |-> IF rr.err # "" THEN "cache store errors" ELSE "",
          rerr |-> IF cfg.EnableRedis THEN rr.err ELSE "none"] :
            m2 \in mems, rr \in reds}

GetActiveCampaigns(c, t) ==
    hybridGet(c, MemSnapshotKey, RedisSnapshotKey, t)

SetActiveCampaigns(c, campaigns, ttl, t) ==
    hybridSet(c, MemSnapshotKey, RedisSnapshotKey, campaigns,
              MarshalCampaigns(campaigns), ttl, t)

GetCampaignIndex(c, dimension, value, t) ==
    hybridGet(c, IndexKey(dimension, value),
              RedisIndexKey(IndexKey(dimension, value)), t)

SetCampaignIndex(c, dimension, value, campaignIDs, ttl, t) ==
    hybridSet(c, IndexKey(dimension, value),
              RedisIndexKey(IndexKey(dimension, value)), campaignIDs, campaignIDs,
              ttl, t)

\* InvalidateAll that clears only the Redis tier
InvalidateAll_RedisOnly(c) ==
    LET reds == IF cfg.EnableRedis THEN rc_clear(c.redis)
                ELSE {[err |-> "", redis |-> c.redis]}
    IN  {[c |-> [mem |-> c.mem, redis |-> rr.redis, stats |-> c.stats],
          err |-> IF rr.err # "" THEN "cache invalidation errors" ELSE ""] :
            rr \in reds}

\* InvalidateAll that keeps the local tier when the Redis clear fails
InvalidateAll_AllOrNothing(c) ==
    LET reds == IF cfg.EnableRedis THEN rc_clear(c.redis)
                ELSE {[err |-> "", redis |-> c.redis]}
    IN  {[c |-> [mem |-> IF cfg.EnableMemory /\ rr.err = "" THEN mc_clear ELSE c.mem,
                 redis |-> rr.redis, stats |-> c.stats],
          err |-> IF rr.err # "" THEN "cache invalidation errors" ELSE ""] :
            rr \in reds}

\* HybridCache.InvalidateAll
InvalidateAll(c) ==
    LET m2 == IF cfg.EnableMemory THEN mc_clear ELSE c.mem
        reds == IF cfg.EnableRedis THEN rc_clear(c.redis)
                ELSE {[err |-> "", redis |-> c.redis]}
    IN  {[c |-> [mem |-> m2, redis |-> rr.redis, stats |-> c.stats],
          err |-> IF rr.err # "" THEN "cache invalidation errors" ELSE ""] :
            rr \in reds}

\* checkMemoryHealth with the utilization test at 90% and above
checkMemoryHealth_AtNinety(m) ==
    IF ~cfg.EnableMemory THEN [Enabled |-> FALSE, Status |-> "disabled"]
    ELSE [Enabled |-> TRUE,
          Status |-> IF cfg.MemoryCacheSize > 0
                        /\ mc_size(m) * 100 >= 90 * cfg.MemoryCacheSize
                     THEN "degraded" ELSE "healthy"]

\* HybridCache.checkMemoryHealth: UtilPct = size / maxSize * 100 > 90
checkMemoryHealth(m) ==
    IF ~cfg.EnableMemory THEN [Enabled |-> FALSE, Status |-> "disabled"]
    ELSE [Enabled |-> TRUE,
          Status |-> IF cfg.MemoryCacheSize > 0
                        /\ mc_size(m) * 100 > 90 * cfg.MemoryCacheSize
                     THEN "degraded" ELSE "healthy"]

\* HybridCache.checkRedisHealth: ping is the outcome of redisCache.healthCheck,
\* an error or the latency measured in milliseconds
checkRedisHealth(ping) ==
    IF ~cfg.EnableRedis THEN [Enabled |-> FALSE, Status |-> "disabled"]
    ELSE [Enabled |-> TRUE,
          Status |-> IF ping.err THEN "unhealthy"
                     ELSE IF ping.latency > 50 THEN "degraded"
                     ELSE "healthy"]

\* HybridCache.determineOverallHealth
determineOverallHealth(memory, redisHealth) ==
    LET on(h) == h.Enabled /\ h.Status # "disabled"
        count(st) == (IF on(memory) /\ memory.Status = st THEN 1 ELSE 0)
                     + (IF on(redisHealth) /\ redisHealth.Status = st THEN 1 ELSE 0)
        healthyComponents == count("healthy")
        degradedComponents == count("degraded")
        totalEnabled == (IF on(memory) THEN 1 ELSE 0)
                        + (IF on(redisHealth) THEN 1 ELSE 0)
    IN  IF ~on(memory) /\ ~on(redisHealth) THEN "unhealthy"
        ELSE IF healthyComponents = totalEnabled THEN "healthy"
        ELSE IF healthyComponents + degradedComponents = totalEnabled THEN "degraded"
        ELSE "unhealthy"

\* HybridCache.HealthCheck: the statuses of the report
HealthCheck(m, ping) ==
    [Memory |-> checkMemoryHealth(m).Status,
     Redis |-> checkRedisHealth(ping).Status,
     Overall |-> determineOverallHealth(checkMemoryHealth(m), checkRedisHealth(ping))]

-----------------------------------------------------------------------------
(* internal/cache: CachedRepository *)

RECURSIVE Concat(_)
Concat(ss) == IF ss = <<>> THEN <<>> ELSE Head(ss) \o Concat(Tail(ss))

RECURSIVE Dedupe(_)
Dedupe(s) ==
    IF s = <<>> THEN <<>>
    ELSE LET r == Dedupe(SubSeq(s, 1, Len(s) - 1))
         IN  IF s[Len(s)] \in Range(r) THEN r ELSE Append(r, s[Len(s)])

\* CachedRepository.unionSlices: the slices appended, first occurrences kept
unionSlices(slices) == Dedupe(Concat(slices))

\* buildAndCacheIndexes, first loop: the (dimension, value, campaign id)
\* appended for one rule, one campaign, all campaigns, in the code's order
RulePostings(c, rule, reg) ==
    IF rule.RuleType = RuleTypeInclude
       /\ rule.Dimension \in {DimensionCountry, DimensionOS, DimensionApp}
    THEN LET vals == IF rule.Dimension = DimensionApp THEN rule.Values
                     ELSE RuleNormalizeValues(reg, rule)
         IN  [i \in 1..Len(vals) |->
                [dimension |-> rule.Dimension, value |-> vals[i], id |-> c.ID]]
    ELSE <<>>

CampaignPostings(c, reg) ==
    IF IsActive(c)
    THEN Concat([i \in 1..Len(c.Rules) |-> RulePostings(c, c.Rules[i], reg)])
    ELSE <<>>

Postings(campaigns, reg) ==
    Concat([i \in 1..Len(campaigns) |-> CampaignPostings(campaigns[i], reg)])

\* countryIndex, osIndex and appIndex as one map <<dimension, value>> -> ids
buildIndexes(campaigns, reg) ==
    LET ps == Postings(campaigns, reg)
    IN  [k \in {<<ps[i].dimension, ps[i].value>> : i \in 1..Len(ps)} |->
            LET mine == SelectSeq(ps, LAMBDA p : <<p.dimension, p.value>> = k)
            IN  [i \in 1..Len(mine) |-> mine[i].id]]

\* GetActiveCampaignsWithRules with the goroutine started before the error
\* of the source is looked at
GetActiveCampaignsWithRules_SpawnFirst(c, t) ==
    UNION {
        IF g.err = ""
        THEN {[c |-> g.c, err |-> "", campaigns |-> g.data, all |-> g.data,
               spawn |-> FALSE, srcReads |-> 0, path |-> "full"]}
        ELSE {[c |-> g.c, err |-> "source", campaigns |-> <<>>, all |-> <<>>,
               spawn |-> TRUE, srcReads |-> 1, path |-> "full"],
              [c |-> g.c, err |-> "",
               campaigns |-> SelectSeq(db, IsActive),
               all |-> SelectSeq(db, IsActive),
               spawn |-> TRUE, srcReads |-> 1, path |-> "full"]}
        : g \in GetActiveCampaigns(c, t)}

\* GetActiveCampaignsWithRules that asks the source whatever the cache says
GetActiveCampaignsWithRules_AlwaysSource(c, t) ==
    UNION {
        {[c |-> g.c, err |-> "source", campaigns |-> <<>>, all |-> <<>>,
          spawn |-> FALSE, srcReads |-> 1, path |-> "full"],
         [c |-> g.c, err |-> "",
          campaigns |-> SelectSeq(db, IsActive),
          all |-> SelectSeq(db, IsActive),
          spawn |-> g.err # "", srcReads |-> 1, path |-> "full"]}
        : g \in GetActiveCampaigns(c, t)}

\* a repository whose query has no WHERE clause
repoGetAllCampaignsWithRules == db

\* The wrapped repository's GetActiveCampaignsWithRules: the rows of the
\* campaigns table WHERE status = 'ACTIVE'
repoGetActiveCampaignsWithRules == SelectSeq(db, IsActive)

\* GetActiveCampaignsWithRules that writes the snapshot itself and returns
\* when the write has returned
GetActiveCampaignsWithRules_WriteThrough(c, t) ==
    UNION {
        IF g.err = ""
        THEN {[c |-> g.c, err |-> "", campaigns |-> g.data, all |-> g.data,
               spawn |-> FALSE, srcReads |-> 0, path |-> "full"]}
        ELSE {[c |-> g.c, err |-> "source", campaigns |-> <<>>, all |-> <<>>,
               spawn |-> FALSE, srcReads |-> 1, path |-> "full"]}
             \cup {[c |-> w.c, err |-> "",
                    campaigns |-> repoGetActiveCampaignsWithRules,
                    all |-> repoGetActiveCampaignsWithRules,
                    spawn |-> FALSE, srcReads |-> 1, path |-> "full"] :
                        w \in SetActiveCampaigns(g.c, repoGetActiveCampaignsWithRules,
                                                 SnapshotTTL, t)}
        : g \in GetActiveCampaigns(c, t)}

\* CachedRepository.GetActiveCampaignsWithRules.  A cache miss reads the
\* source, which answers with its rows or fails; spawn says the goroutine
\* that caches the result was started.
GetActiveCampaignsWithRules(c, t) ==
    UNION {
        IF g.err = ""
        THEN {[c |-> g.c, err |-> "", campaigns |-> g.data, all |-> g.data,
               spawn |-> FALSE, srcReads |-> 0, path |-> "full"]}
        ELSE {[c |-> g.c, err |-> "source", campaigns |-> <<>>, all |-> <<>>,
               spawn |-> FALSE, srcReads |-> 1, path |-> "full"],
              [c |-> g.c, err |-> "",
               campaigns |-> repoGetActiveCampaignsWithRules,
               all |-> repoGetActiveCampaignsWithRules,
               spawn |-> TRUE, srcReads |-> 1, path |-> "full"]}
        : g \in GetActiveCampaigns(c, t)}

\* CachedRepository.getCandidateIDs, one dimension: skip an empty request
\* value, keep a posting list that was found and is not empty
candidateStep(S, dimension, value, t) ==
    UNION {
        IF value = <<>> THEN {o}
        ELSE {[c |-> g.c,
               sets |-> IF g.err = "" /\ Len(g.data) > 0
                        THEN Append(o.sets, g.data) ELSE o.sets] :
                g \in GetCampaignIndex(o.c, dimension, value, t)}
        : o \in S}

\* CachedRepository.getCandidateIDs: country, then os, then app.  No posting
\* list found is the error that triggers the fallback (sets = <<>>).
getCandidateIDs(c, req, t) ==
    candidateStep(
        candidateStep(
            candidateStep({[c |-> c, sets |-> <<>>]}, DimensionCountry, req.Country, t),
            DimensionOS, req.OS, t),
        DimensionApp, req.App, t)

\* the filter loop of getCampaignsByIDs: campaignMap[id] for each id in order
filterByIDs(allCampaigns, campaignIDs) ==
    LET has(id) == \E i \in 1..Len(allCampaigns) : allCampaigns[i].ID = id
        pick(id) == allCampaigns[CHOOSE i \in 1..Len(allCampaigns) :
                        /\ allCampaigns[i].ID = id
                        /\ \A j \in (i + 1)..Len(allCampaigns) : allCampaigns[j].ID # id]
        kept == SelectSeq(campaignIDs, has)
    IN  [i \in 1..Len(kept) |-> pick(kept[i])]

\* CachedRepository.getCampaignsByIDs: the snapshot from the cache, or from the
\* source on a miss (no goroutine is started here)
getCampaignsByIDs(c, campaignIDs, t) ==
    UNION {
        IF g.err = ""
        THEN {[c |-> g.c, err |-> "", campaigns |-> filterByIDs(g.data, campaignIDs),
               all |-> g.data, spawn |-> FALSE, srcReads |-> 0, path |-> "index"]}
        ELSE {[c |-> g.c, err |-> "source", campaigns |-> <<>>, all |-> <<>>,
               spawn |-> FALSE, srcReads |-> 1, path |-> "index"],
              [c |-> g.c, err |-> "",
               campaigns |-> filterByIDs(repoGetActiveCampaignsWithRules, campaignIDs),
               all |-> repoGetActiveCampaignsWithRules,
               spawn |-> FALSE, srcReads |-> 1, path |-> "index"]}
        : g \in GetActiveCampaigns(c, t)}

\* CachedRepository.GetCampaignsByRequest
GetCampaignsByRequest(c, req, t) ==
    UNION {
        IF Len(cand.sets) = 0
        THEN GetActiveCampaignsWithRules(cand.c, t)
        ELSE IF Len(unionSlices(cand.sets)) > 0
        THEN getCampaignsByIDs(cand.c, unionSlices(cand.sets), t)
        ELSE {[c |-> cand.c, err |-> "", campaigns |-> <<>>, all |-> <<>>,
               spawn |-> FALSE, srcReads |-> 0, path |-> "index"]}
        : cand \in getCandidateIDs(c, req, t)}

-----------------------------------------------------------------------------
(* internal/service: DeliveryService *)

\* the loop of GetCampaigns without the matcher's test
matchingCampaigns_NoFilter(reg, campaignsWithRules, req) ==
    [i \in 1..Len(campaignsWithRules) |-> ToResponse(campaignsWithRules[i])]

\* the loop of GetCampaigns that keeps the campaigns the matcher admits
matchingCampaigns(reg, campaignsWithRules, req) ==
    LET kept == SelectSeq(campaignsWithRules, LAMBDA c : MatchesRequest(reg, c, req))
    IN  [i \in 1..Len(kept) |-> ToResponse(kept[i])]

\* GetCampaigns that hands the request to the repository and the matcher as
\* it came
GetCampaigns_Raw(reg, c, req, t) ==
    IF Validate(req) # ""
    THEN {[c |-> c, err |-> Validate(req), resp |-> <<>>, all |-> <<>>,
           spawn |-> FALSE, srcReads |-> 0, path |-> "none"]}
    ELSE {[c |-> o.c,
           err |-> IF o.err # "" THEN "failed to retrieve campaigns" ELSE "",
           resp |-> IF o.err # "" THEN <<>>
                    ELSE matchingCampaigns(reg, o.campaigns,
                                           [req EXCEPT !.Country = ToLower(@)]),
           all |-> o.all, spawn |-> o.spawn, srcReads |-> o.srcReads,
           path |-> o.path] :
            o \in GetCampaignsByRequest(c, req, t)}

\* DeliveryService.GetCampaigns over a repository that implements
\* OptimizedCampaignRepository (CachedRepository does)
GetCampaigns(reg, c, req, t) ==
    IF Validate(req) # ""
    THEN {[c |-> c, err |-> Validate(req), resp |-> <<>>, all |-> <<>>,
           spawn |-> FALSE, srcReads |-> 0, path |-> "none"]}
    ELSE {[c |-> o.c,
           err |-> IF o.err # "" THEN "failed to retrieve campaigns" ELSE "",
           resp |-> IF o.err # "" THEN <<>>
                    ELSE matchingCampaigns(reg, o.campaigns, NormalizeValues(req)),
           all |-> o.all, spawn |-> o.spawn, srcReads |-> o.srcReads,
           path |-> o.path] :
            o \in GetCampaignsByRequest(c, NormalizeValues(req), t)}

-----------------------------------------------------------------------------
(* The inputs the model draws from *)

sUS == <<"U", "S">>
sUs == <<"u", "s">>
sUSsp == <<" ", "U", "S">>
sCa == <<"c", "a">>
sAnd == <<"A", "n", "d">>
sand == <<"a", "n", "d">>
sIOSsp == <<"i", "O", "S", " ">>
sLudo == <<"c", ".", "l">>
sLudoSp == <<"c", ".", "l", " ">>
sAny == <<"c", ".", "a">>

Rule(d, t, vs) == [Dimension |-> d, RuleType |-> t, Values |-> vs]
Campaign(id, status, rules) == [ID |-> id, Status |-> status, Rules |-> rules]

\* The contents of the campaigns table
DB1 == <<Campaign("spotify", StatusActive,
            <<Rule(DimensionCountry, RuleTypeInclude, <<sUS>>)>>),
         Campaign("open", StatusActive, <<>>),
         Campaign("paused", StatusInactive, <<>>)>>

DB2 == <<Campaign("duolingo", StatusActive,
            <<Rule(DimensionOS, RuleTypeInclude, <<sAnd>>),
              Rule(DimensionCountry, RuleTypeExclude, <<sUS>>)>>),
         Campaign("subwaysurfer", StatusActive,
            <<Rule(DimensionOS, RuleTypeInclude, <<sand>>),
              Rule(DimensionApp, RuleTypeInclude, <<sLudoSp>>)>>)>>

DBs == {DB1, DB2}

Req(country, os, app) == [Country |-> country, OS |-> os, App |-> app]

\* the requests clients send, as decoded from the query string
Requests ==
    {Req(sUS, sAnd, sLudo), Req(sCa, sIOSsp, sAny),
     Req(<<>>, sAnd, sAny), Req(<<"u">>, sAnd, sAny), Req(sUSsp, sAnd, sAny),
     Req(sUS, <<>>, sAny), Req(sUS, sAnd, <<>>), Req(<<"U", " ">>, sAnd, sAny)}

\* the index keys clients of the Cache interface ask for
IndexLookups == {<<DimensionCountry, sUs>>, <<DimensionOS, sand>>}

\* the matcher harness: rules over one pool of value lists, requests over one
\* pool of values
MatchValueLists == {<<sUs>>, <<sUSsp, sCa>>}
MatchRules ==
    {Rule(d, t, vs) : d \in {DimensionCountry, DimensionOS, DimensionApp, DimensionState},
                      t \in {RuleTypeInclude, RuleTypeExclude},
                      vs \in MatchValueLists}
MatchRuleLists == UNION {[1..n -> MatchRules] : n \in 0..MaxRules}
MatchCampaigns ==
    {Campaign("c", st, rs) : st \in {StatusActive, StatusInactive}, rs \in MatchRuleLists}
MatchRequestValues == {<<>>, sUS, sCa}
MatchRequests ==
    {Req(c, o, a) : c \in MatchRequestValues, o \in MatchRequestValues,
                    a \in MatchRequestValues}

-----------------------------------------------------------------------------
(* The system: clients, the materialization goroutines, the sweeper, the clock *)

Cache == [mem |-> mem, redis |-> redis, stats |-> stats]

SetCache(c) == /\ mem' = c.mem
               /\ redis' = c.redis
               /\ stats' = c.stats

NewStats == [Hits |-> 0, Misses |-> 0, Errors |-> 0, TotalOps |-> 0]

NoMatch == [done |-> FALSE, result |-> FALSE]

NoReport == [Memory |-> "", Redis |-> "", Overall |-> ""]

NoHealth == [ping |-> [err |-> FALSE, latency |-> 0], done |-> FALSE,
             report |-> NoReport]

\* the goroutines that call into the local tier, none of them in a call
Threads == 1..MaxThreads

Unlocked == [t \in Threads |-> [pc |-> "idle", op |-> "size"]]

NoNorm == [dimension |-> DimensionCountry, value |-> <<>>, once |-> <<>>,
           twice |-> <<>>, done |-> FALSE]

InitSys ==
    /\ now = 0
    /\ registry = NewDimensionRegistry
    /\ mem = EmptyMap
    /\ redis = EmptyMap
    /\ stats = NewStats
    /\ cfg \in {[EnableMemory |-> em, EnableRedis |-> er, MemoryCacheSize |-> n] :
                    em \in BOOLEAN, er \in BOOLEAN, n \in {1, MaxSize}}
    /\ cfg.EnableMemory \/ cfg.MemoryCacheSize = MaxSize
    /\ db \in DBs
    /\ tasks = <<>>
    /\ last = [op |-> "init"]

Init ==
    /\ InitSys
    /\ campaign = Campaign("c", StatusActive, <<>>)
    /\ request = Req(<<>>, <<>>, <<>>)
    /\ matched = NoMatch
    /\ health = NoHealth
    /\ norm = NoNorm
    /\ mu = Unlocked

Remove(seq, i) == SubSeq(seq, 1, i - 1) \o SubSeq(seq, i + 1, Len(seq))

\* a minute passes; the Redis server expires its keys
Tick ==
    /\ now < MaxTime
    /\ now' = now + 1
    /\ redis' = rc_expire(redis, now + 1)
    /\ last' = [op |-> "Tick"]
    /\ UNCHANGED <<mem, stats, cfg, db, tasks, harness>>

\* a request served by DeliveryService.GetCampaigns; a source read on the
\* full-snapshot path starts the goroutine of GetActiveCampaignsWithRules
ServeRequest(reqs, maxTasks) ==
    /\ stats.TotalOps < MaxOps
    /\ \E req \in reqs : \E o \in GetCampaigns(registry, Cache, req, now) :
        /\ o.spawn => Len(tasks) < maxTasks
        /\ SetCache(o.c)
        /\ tasks' = IF o.spawn
                    THEN Append(tasks, [campaigns |-> o.all, pc |-> "snapshot", todo |-> {}])
                    ELSE tasks
        /\ last' = [op |-> "GetCampaigns", req |-> req, err |-> o.err, resp |-> o.resp,
                    all |-> o.all, spawn |-> o.spawn, srcReads |-> o.srcReads,
                    path |-> o.path]
    /\ UNCHANGED <<now, cfg, db, harness>>

ServeGetCampaigns == ServeRequest(Requests, MaxTasks)

\* the goroutine's first call: cr.cache.SetActiveCampaigns(cacheCtx, campaigns, cr.ttl)
TaskSetActiveCampaigns ==
    \E i \in 1..Len(tasks) :
        /\ tasks[i].pc = "snapshot"
        /\ \E o \in SetActiveCampaigns(Cache, tasks[i].campaigns, SnapshotTTL, now) :
            LET todo == DOMAIN buildIndexes(tasks[i].campaigns, registry)
            IN  /\ SetCache(o.c)
                /\ tasks' = IF todo = {} THEN Remove(tasks, i)
                            ELSE [tasks EXCEPT ![i].pc = "indexes", ![i].todo = todo]
                /\ last' = [op |-> "SetActiveCampaigns", data |-> tasks[i].campaigns,
                            ttl |-> SnapshotTTL, err |-> o.err, rerr |-> o.rerr]
        /\ UNCHANGED <<now, cfg, db, harness>>

\* buildAndCacheIndexes that stops after the country map
NextIndexKeys_CountryOnly(todo) == {k \in todo : k[1] = DimensionCountry}

\* the keys buildAndCacheIndexes writes next: the country map, then the os
\* map, then the app map, each in Go's map order
NextIndexKeys(todo) ==
    LET of(d) == {k \in todo : k[1] = d}
    IN  IF of(DimensionCountry) # {} THEN of(DimensionCountry)
        ELSE IF of(DimensionOS) # {} THEN of(DimensionOS)
        ELSE of(DimensionApp)

\* one cr.cache.SetCampaignIndex of buildAndCacheIndexes
TaskSetCampaignIndex ==
    \E i \in 1..Len(tasks) :
        /\ tasks[i].pc = "indexes"
        /\ \E k \in NextIndexKeys(tasks[i].todo) :
            LET ids == buildIndexes(tasks[i].campaigns, registry)[k]
            IN  \E o \in SetCampaignIndex(Cache, k[1], k[2], ids,
                                          SnapshotTTL + IndexGrace, now) :
                    /\ SetCache(o.c)
                    /\ tasks' = IF tasks[i].todo = {k} THEN Remove(tasks, i)
                                ELSE [tasks EXCEPT ![i].todo = @ \ {k}]
                    /\ last' = [op |-> "SetCampaignIndex", dimension |-> k[1],
                                value |-> k[2], data |-> ids,
                                ttl |-> SnapshotTTL + IndexGrace, err |-> o.err,
                                rerr |-> o.rerr]
        /\ UNCHANGED <<now, cfg, db, harness>>

\* a client of the Cache interface reads the snapshot
ClientGetActiveCampaigns ==
    /\ stats.TotalOps < MaxOps
    /\ \E o \in GetActiveCampaigns(Cache, now) :
        /\ SetCache(o.c)
        /\ last' = [op |-> "GetActiveCampaigns", err |-> o.err, data |-> o.data,
                    tier |-> o.tier, rerr |-> o.rerr]
    /\ UNCHANGED <<now, cfg, db, tasks, harness>>

\* a client of the Cache interface reads a posting list
ClientGetCampaignIndex ==
    /\ stats.TotalOps < MaxOps
    /\ \E k \in IndexLookups : \E o \in GetCampaignIndex(Cache, k[1], k[2], now) :
        /\ SetCache(o.c)
        /\ last' = [op |-> "GetCampaignIndex", dimension |-> k[1], value |-> k[2],
                    err |-> o.err, data |-> o.data, tier |-> o.tier,
                    rerr |-> o.rerr]
    /\ UNCHANGED <<now, cfg, db, tasks, harness>>

\* CachedRepository.InvalidateCache
ClientInvalidateAll ==
    /\ \E o \in InvalidateAll(Cache) :
        /\ SetCache(o.c)
        /\ last' = [op |-> "InvalidateAll", err |-> o.err, dropped |-> mc_size(mem)]
    /\ UNCHANGED <<now, cfg, db, tasks, harness>>

\* the ticker of memoryCache.cleanup fires
Cleanup ==
    /\ cfg.EnableMemory
    /\ mem' = mc_cleanup(mem, now)
    /\ mem' # mem
    /\ last' = [op |-> "cleanup"]
    /\ UNCHANGED <<now, redis, stats, cfg, db, tasks, harness>>

Next ==
    \/ Tick
    \/ ServeGetCampaigns
    \/ TaskSetActiveCampaigns
    \/ TaskSetCampaignIndex
    \/ ClientGetActiveCampaigns
    \/ ClientGetCampaignIndex
    \/ ClientInvalidateAll
    \/ Cleanup

Spec == Init /\ [][Next]_vars

\* The service with one cache tier, at one instant: requests and the
\* goroutines they start.
InitLive ==
    /\ Init
    /\ cfg.EnableMemory # cfg.EnableRedis
    /\ cfg.MemoryCacheSize = MaxSize

NextLive ==
    \/ ServeGetCampaigns
    \/ TaskSetActiveCampaigns
    \/ TaskSetCampaignIndex

\* The goroutine of GetActiveCampaignsWithRules is scheduled by the Go runtime
\* and waits for nothing but its own calls, which return by the deadline of
\* its own context: each of its steps is eventually taken.
SpecLive ==
    /\ InitLive
    /\ [][NextLive]_vars
    /\ WF_vars(TaskSetActiveCampaigns)
    /\ WF_vars(TaskSetCampaignIndex)

\* The service with the local tier alone, at one instant, while the campaigns
\* table is being edited: requests that miss before the first goroutine has
\* written start goroutines of their own, each with the rows its request read.
ConcurrentRequests == {Req(sUS, sAnd, sLudo), Req(sCa, sIOSsp, sAny)}

InitConcurrent ==
    /\ Init
    /\ cfg = [EnableMemory |-> TRUE, EnableRedis |-> FALSE, MemoryCacheSize |-> MaxSize]

ServeConcurrently == ServeRequest(ConcurrentRequests, MaxConcurrent)

\* the campaigns table is rewritten: later source reads return other rows
UpdateSource ==
    /\ db' \in DBs \ {db}
    /\ last' = [op |-> "UpdateSource"]
    /\ UNCHANGED <<now, mem, redis, stats, cfg, tasks, harness>>

NextConcurrent ==
    \/ ServeConcurrently
    \/ TaskSetActiveCampaigns
    \/ TaskSetCampaignIndex
    \/ UpdateSource

SpecConcurrent == InitConcurrent /\ [][NextConcurrent]_vars

\* The invalidation channel "adbeacon:cache:invalidate".  The subscriptions an
\* instance holds on it: subscribeCacheInvalidation is the only code that
\* subscribes, and NewHybridCache, like every other function, never calls it.
InvalidationEvents == {"campaigns_updated", ""}

Subscriptions == {}

\* A Redis client publishes an event on the channel (the PUBLISH of
\* publishCacheInvalidation): Redis hands the message to the subscriptions
\* open at that moment, whose handlers run once each, and keeps nothing.
PublishInvalidation ==
    /\ cfg.EnableRedis
    /\ \E event \in InvalidationEvents :
        last' = [op |-> "Publish", event |-> event,
                 receivers |-> Cardinality(Subscriptions)]
    /\ UNCHANGED <<now, mem, redis, stats, cfg, db, tasks, harness>>

\* An instance with both tiers, its requests and goroutines, and the channel.
InitPub ==
    /\ Init
    /\ cfg.EnableMemory
    /\ cfg.EnableRedis

NextPub ==
    \/ Tick
    \/ ServeGetCampaigns
    \/ TaskSetActiveCampaigns
    \/ TaskSetCampaignIndex
    \/ PublishInvalidation

SpecPub == InitPub /\ [][NextPub]_vars

-----------------------------------------------------------------------------
(* The matcher harness: MatchesRequest applied to a campaign and a request *)

InitMatch ==
    /\ now = 0
    /\ registry = NewDimensionRegistry
    /\ mem = EmptyMap
    /\ redis = EmptyMap
    /\ stats = NewStats
    /\ cfg = [EnableMemory |-> TRUE, EnableRedis |-> FALSE, MemoryCacheSize |-> MaxSize]
    /\ db = DB1
    /\ tasks = <<>>
    /\ last = [op |-> "init"]
    /\ campaign \in MatchCampaigns
    /\ request \in MatchRequests
    /\ matched = NoMatch
    /\ health = NoHealth
    /\ norm = NoNorm
    /\ mu = Unlocked

Match ==
    /\ ~matched.done
    /\ matched' = [done |-> TRUE, result |-> MatchesRequest(registry, campaign, request)]
    /\ UNCHANGED <<sysVars, registry, campaign, request, health, norm, mu>>

NextMatch == Match

SpecMatch == InitMatch /\ [][NextMatch]_vars

-----------------------------------------------------------------------------
(* The health harness: HealthCheck on a local tier of any fill and a ping   *)
(* of any outcome                                                            *)

\* outcomes of the ping: an error, or a latency around the 50 ms threshold
Pings ==
    {[err |-> TRUE, latency |-> 0]} \cup
    {[err |-> FALSE, latency |-> l] : l \in {0, 50, 51}}

InitHealth ==
    /\ now = 0
    /\ registry = NewDimensionRegistry
    /\ cfg \in {[EnableMemory |-> em, EnableRedis |-> er, MemoryCacheSize |-> n] :
                    em \in BOOLEAN, er \in BOOLEAN, n \in 1..MaxHealthSize}
    /\ \E n \in 0..cfg.MemoryCacheSize :
            mem = [i \in {IndexKey(DimensionApp, <<j>>) : j \in 1..n} |->
                        Item(<<>>, SnapshotTTL, SnapshotTTL)]
    /\ cfg.EnableMemory \/ mem = EmptyMap
    /\ redis = EmptyMap
    /\ stats = NewStats
    /\ db = DB1
    /\ tasks = <<>>
    /\ last = [op |-> "init"]
    /\ campaign = Campaign("c", StatusActive, <<>>)
    /\ request = Req(<<>>, <<>>, <<>>)
    /\ matched = NoMatch
    /\ health \in {[ping |-> p, done |-> FALSE, report |-> NoReport] : p \in Pings}
    /\ norm = NoNorm
    /\ mu = Unlocked

ClientHealthCheck ==
    /\ ~health.done
    /\ health' = [health EXCEPT !.done = TRUE,
                                 !.report = HealthCheck(mem, health.ping)]
    /\ UNCHANGED <<sysVars, registry, campaign, request, matched, norm, mu>>

NextHealth == ClientHealthCheck

SpecHealth == InitHealth /\ [][NextHealth]_vars

-----------------------------------------------------------------------------
(* The registry harness: a matcher whose registry takes custom processors   *)
(* while it is called again and again with one campaign and one request,    *)
(* and the hours pass                                                        *)

sIn == <<"i", "n">>
sGj == <<"g", "j">>
sNy == <<"n", "y">>

\* the processors of internal/models that NewDimensionRegistry leaves out
CustomProcessors == {DimensionState, DimensionDeviceType, DimensionTimeOfDay}

DimRules ==
    {Rule(DimensionCountry, RuleTypeInclude, <<sIn>>),
     Rule(DimensionState, RuleTypeInclude, <<sGj>>),
     Rule(DimensionState, RuleTypeExclude, <<sGj>>),
     Rule(DimensionDeviceType, RuleTypeExclude, <<sGj>>),
     Rule(DimensionTimeOfDay, RuleTypeInclude, <<<<"0">>>>),
     Rule(DimensionTimeOfDay, RuleTypeExclude, <<<<"1", "-", "2">>>>)}
DimCampaigns ==
    {Campaign("c", StatusActive, rs) : rs \in UNION {[1..n -> DimRules] : n \in 0..MaxRules}}

\* requests that carry a state
DimRequests ==
    {[Country |-> c, OS |-> sand, App |-> sAny, State |-> st] :
        c \in {<<>>, sIn, sUs}, st \in {<<>>, sGj, sNy}}

NoCalls == [done |-> FALSE, result |-> FALSE, calls |-> 0, registry |-> {}]

InitDim ==
    /\ now = 0
    /\ registry = NewDimensionRegistry
    /\ mem = EmptyMap
    /\ redis = EmptyMap
    /\ stats = NewStats
    /\ cfg = [EnableMemory |-> TRUE, EnableRedis |-> FALSE, MemoryCacheSize |-> MaxSize]
    /\ db = DB1
    /\ tasks = <<>>
    /\ last = [op |-> "init"]
    /\ campaign \in DimCampaigns
    /\ request \in DimRequests
    /\ matched = NoCalls
    /\ health = NoHealth
    /\ norm = NoNorm
    /\ mu = Unlocked

\* DeliveryService.RegisterCustomDimension: callable at any time, it writes
\* the registry the matcher reads
RegisterCustomDimension ==
    /\ \E name \in CustomProcessors \ registry :
            registry' = RegisterProcessor(registry, name)
    /\ UNCHANGED <<sysVars, campaign, request, matched, health, norm, mu>>

\* an hour passes
HourPasses ==
    /\ now < 60 * MaxHours
    /\ now' = now + 60
    /\ UNCHANGED <<mem, redis, stats, cfg, db, tasks, last, harness>>

\* one more call of MatchesRequest with the same campaign and request
MatchAgain ==
    /\ matched.calls < MaxCalls
    /\ matched' = [done |-> TRUE,
                   result |-> MatchesRequest(registry, campaign, request),
                   calls |-> matched.calls + 1,
                   registry |-> registry]
    /\ UNCHANGED <<sysVars, registry, campaign, request, health, norm, mu>>

NextDim ==
    \/ RegisterCustomDimension
    \/ HourPasses
    \/ MatchAgain

SpecDim == InitDim /\ [][NextDim]_vars

-----------------------------------------------------------------------------
(* The normalization harness: NormalizeValue of every processor applied to   *)
(* a value, and to its own result                                            *)

AllDimensions ==
    {DimensionCountry, DimensionOS, DimensionApp, DimensionState,
     DimensionDeviceType, DimensionAgeGroup, DimensionTimeOfDay}

NormAlphabet == {" ", "A", "a", "1"}
NormValues == UNION {[1..n -> NormAlphabet] : n \in 0..MaxLen}

InitNorm ==
    /\ now = 0
    /\ registry = AllDimensions
    /\ mem = EmptyMap
    /\ redis = EmptyMap
    /\ stats = NewStats
    /\ cfg = [EnableMemory |-> TRUE, EnableRedis |-> FALSE, MemoryCacheSize |-> MaxSize]
    /\ db = DB1
    /\ tasks = <<>>
    /\ last = [op |-> "init"]
    /\ campaign = Campaign("c", StatusActive, <<>>)
    /\ request = Req(<<>>, <<>>, <<>>)
    /\ matched = NoMatch
    /\ health = NoHealth
    /\ norm \in {[dimension |-> d, value |-> v, once |-> <<>>, twice |-> <<>>,
                   done |-> FALSE] : d \in AllDimensions, v \in NormValues}
    /\ mu = Unlocked

Normalize ==
    /\ ~norm.done
    /\ norm' = [norm EXCEPT
                    !.once = NormalizeValue(norm.dimension, norm.value),
                    !.twice = NormalizeValue(norm.dimension,
                                             NormalizeValue(norm.dimension, norm.value)),
                    !.done = TRUE]
    /\ UNCHANGED <<sysVars, registry, campaign, request, matched, health, mu>>

NextNorm == Normalize

SpecNorm == InitNorm /\ [][NextNorm]_vars

-----------------------------------------------------------------------------
(* The local tier under concurrent callers: memoryCache.mu, a sync.RWMutex.  *)
(* A goroutine calls a method (pc "locking": at mu.Lock or mu.RLock), gets   *)
(* the lock (pc "inside"), runs the body and unlocks on return (pc "idle").  *)

LocalOps == {"setActiveCampaigns", "getCampaignIndex", "setCampaignIndex",
             "clear", "cleanup", "size"}

\* the methods whose body changes mc.items: the inserts with their eviction,
\* clear, and the sweep of cleanup
WriterOps == {"setActiveCampaigns", "setCampaignIndex", "clear", "cleanup"}

\* every method on the reader side
LockMode_ReaderSide(op) == "R"

\* the side of mc.mu each method takes
LockMode(op) ==
    IF op \in {"getActiveCampaigns", "getCampaignIndex", "size"} THEN "R" ELSE "W"

Holding(mode) == {t \in Threads : mu[t].pc = "inside" /\ LockMode(mu[t].op) = mode}
Pending(mode) == {t \in Threads : mu[t].pc = "locking" /\ LockMode(mu[t].op) = mode}

\* a goroutine enters a method and reaches its Lock or RLock; the sweep is
\* the one goroutine started by newMemoryCache
Call ==
    \E t \in Threads : \E op \in LocalOps :
        /\ mu[t].pc = "idle"
        /\ op = "cleanup" => \A u \in Threads : mu[u].pc = "idle" \/ mu[u].op # "cleanup"
        /\ mu' = [mu EXCEPT ![t] = [pc |-> "locking", op |-> op]]
        /\ UNCHANGED <<sysVars, registry, campaign, request, matched, health, norm>>

\* sync.RWMutex: Lock returns when no reader and no writer holds the mutex;
\* RLock returns when no writer holds it and none is waiting for it
Acquire ==
    \E t \in Threads :
        /\ mu[t].pc = "locking"
        /\ IF LockMode(mu[t].op) = "W"
           THEN Holding("R") = {} /\ Holding("W") = {}
           ELSE Holding("W") = {} /\ Pending("W") = {}
        /\ mu' = [mu EXCEPT ![t].pc = "inside"]
        /\ UNCHANGED <<sysVars, registry, campaign, request, matched, health, norm>>

LockKey == IndexKey(DimensionOS, sand)

\* the body of the method and the deferred Unlock or RUnlock
Return ==
    \E t \in Threads :
        /\ mu[t].pc = "inside"
        /\ mu' = [mu EXCEPT ![t].pc = "idle"]
        /\ LET op == mu[t].op
           IN  /\ mem' \in
                    CASE op = "setActiveCampaigns" ->
                            mc_set(mem, MemSnapshotKey, repoGetActiveCampaignsWithRules,
                                   SnapshotTTL, now + SnapshotTTL, cfg.MemoryCacheSize, now)
                      [] op = "setCampaignIndex" ->
                            mc_set(mem, LockKey, <<"duolingo">>, SnapshotTTL + IndexGrace,
                                   now + SnapshotTTL + IndexGrace, cfg.MemoryCacheSize, now)
                      [] op = "clear" -> {mc_clear}
                      [] op = "cleanup" -> {mc_cleanup(mem, now)}
                      [] OTHER -> {mem}
               /\ last' =
                    CASE op = "getCampaignIndex" ->
                            [op |-> op, found |-> mc_get(mem, LockKey, now).found]
                      [] op = "size" -> [op |-> op, size |-> mc_size(mem)]
                      [] OTHER -> [op |-> op]
        /\ UNCHANGED <<now, redis, stats, cfg, db, tasks,
                       registry, campaign, request, matched, health, norm>>

InitLock ==
    /\ Init
    /\ cfg = [EnableMemory |-> TRUE, EnableRedis |-> FALSE, MemoryCacheSize |-> 1]
    /\ db = DB1

NextLock ==
    \/ Call
    \/ Acquire
    \/ Return
    \/ Tick

SpecLock == InitLock /\ [][NextLock]_vars

-----------------------------------------------------------------------------
(* Claims *)

RuleDimensions(c) == {c.Rules[i].Dimension : i \in 1..Len(c.Rules)}

\* the request value equals, after the dimension's normalization, one of the
\* rule's values
Admitted(d, v, rule) ==
    NormalizeValue(d, v) \in {NormalizeValue(d, rule.Values[i]) : i \in 1..Len(rule.Values)}

IncludesOn(c, d) ==
    {i \in 1..Len(c.Rules) :
        c.Rules[i].Dimension = d /\ c.Rules[i].RuleType = RuleTypeInclude}
ExcludesOn(c, d) ==
    {i \in 1..Len(c.Rules) :
        c.Rules[i].Dimension = d /\ c.Rules[i].RuleType = RuleTypeExclude}

C2_Applies ==
    /\ matched.done
    /\ IsActive(campaign)
    /\ RuleDimensions(campaign) \subseteq registry
    /\ \A d \in RuleDimensions(campaign) : GetValue(d, request) # <<>>

\* C2: for an active campaign whose rule dimensions are all registered and a
\* request with a value for each of them, MatchesRequest is true exactly when
\* every dimension with rules has (no include-rule or an include-rule that
\* admits the request value) and no exclude-rule that admits it.
C2_IncludeUnionExcludeVeto ==
    C2_Applies =>
        (matched.result <=>
            \A d \in RuleDimensions(campaign) :
                /\ \/ IncludesOn(campaign, d) = {}
                   \/ \E i \in IncludesOn(campaign, d) :
                        Admitted(d, GetValue(d, request), campaign.Rules[i])
                /\ \A i \in ExcludesOn(campaign, d) :
                        ~Admitted(d, GetValue(d, request), campaign.Rules[i]))

\* an admitted campaign that carries an include-rule and an exclude-rule
C2_Witness ==
    /\ C2_Applies
    /\ matched.result
    /\ \E d \in RuleDimensions(campaign) : IncludesOn(campaign, d) # {}
    /\ \E d \in RuleDimensions(campaign) : ExcludesOn(campaign, d) # {}

\* C3: every id in a successful response belongs to a campaign of the
\* snapshot set the request was served from, and that campaign is ACTIVE and
\* admitted by the matcher for the normalized request.
C3_ResponseSound ==
    (last.op = "GetCampaigns" /\ last.err = "") =>
        \A i \in 1..Len(last.resp) :
            \E j \in 1..Len(last.all) :
                /\ last.all[j].ID = last.resp[i]
                /\ last.all[j].Status = StatusActive
                /\ MatchesRequest(registry, last.all[j], NormalizeValues(last.req))

\* a request answered through the index with some campaigns, from a snapshot
\* that also holds a campaign that was not returned
C3_Witness ==
    /\ last.op = "GetCampaigns"
    /\ last.err = ""
    /\ last.path = "index"
    /\ Len(last.resp) > 0
    /\ Len(last.resp) < Len(last.all)

\* the four parameter rules of the delivery request
ValidParameters(req) ==
    /\ req.Country # <<>>
    /\ Len(req.Country) = 2
    /\ req.OS # <<>>
    /\ req.App # <<>>

ValidationMessages ==
    {"country is required", "country must be a 2-letter code",
     "os is required", "app is required"}

\* C4: a request that fails validation returns the validation error, reads
\* the source zero times, and leaves both cache tiers, the counters and the
\* set of materialization tasks as they were.
C4_InvalidRequestTouchesNothing ==
    [][(last'.op = "GetCampaigns" /\ ~ValidParameters(last'.req)) =>
            /\ last'.err \in ValidationMessages
            /\ last'.resp = <<>>
            /\ last'.srcReads = 0
            /\ ~last'.spawn
            /\ UNCHANGED <<mem, redis, stats, tasks>>]_vars

\* an invalid request was answered while the cache held entries
C4_Witness ==
    /\ last.op = "GetCampaigns"
    /\ ~ValidParameters(last.req)
    /\ last.err \in ValidationMessages
    /\ mem # EmptyMap
    /\ stats.TotalOps > 0

\* the step is a valid request whose read of the source failed
SourceFailed ==
    /\ last'.op = "GetCampaigns"
    /\ ValidParameters(last'.req)
    /\ last'.srcReads = 1
    /\ last'.err # ""

\* C5 as stated: when the source fails on a cache miss the request returns
\* the generic retrieval error, starts no materialization task and writes
\* nothing to either cache tier.
C5_SourceErrorWritesNothing ==
    [][SourceFailed =>
            /\ last'.err = "failed to retrieve campaigns"
            /\ UNCHANGED <<tasks, mem, redis>>]_vars

\* the local entry under key after the step is a warm-up copy of the posting
\* list the shared tier held under the same key before the step
WarmedPostingList(key) ==
    /\ key # MemSnapshotKey
    /\ RedisIndexKey(key) \in DOMAIN redis
    /\ mem'[key].data = redis[RedisIndexKey(key)].data
    /\ mem'[key].expiresAt = now + DefaultTTL

\* C5 amended: when the source fails on a cache miss the request returns the
\* generic retrieval error, starts no materialization task, writes nothing
\* to the shared tier and no snapshot to the local tier; the only entries it
\* adds to the local tier are warm-up copies of posting lists its index
\* lookups read from the shared tier.
C5_SourceErrorWritesOnlyWarmUps ==
    [][SourceFailed =>
            /\ last'.err = "failed to retrieve campaigns"
            /\ last'.resp = <<>>
            /\ UNCHANGED <<tasks, redis>>
            /\ MemSnapshotKey \in DOMAIN mem' =>
                    /\ MemSnapshotKey \in DOMAIN mem
                    /\ mem'[MemSnapshotKey] = mem[MemSnapshotKey]
            /\ \A key \in DOMAIN mem' :
                    \/ key \in DOMAIN mem /\ mem'[key] = mem[key]
                    \/ WarmedPostingList(key)]_vars

\* the source failed for a request whose candidates came from the index
C5_Witness ==
    /\ last.op = "GetCampaigns"
    /\ ValidParameters(last.req)
    /\ last.srcReads = 1
    /\ last.err = "failed to retrieve campaigns"
    /\ last.path = "index"

\* the local-tier key a cache operation recorded in last works on
KeyOf(l) ==
    IF l.op \in {"GetActiveCampaigns", "SetActiveCampaigns"} THEN MemSnapshotKey
    ELSE IndexKey(l.dimension, l.value)

SetOps == {"SetActiveCampaigns", "SetCampaignIndex"}
GetOps == {"GetActiveCampaigns", "GetCampaignIndex"}

\* C6 as stated: with the local tier enabled, a get of the same key right
\* after a set with a positive ttl returns the payload just written,
\* whatever the number of entries the local tier held.
C6_LocalReadYourWrites ==
    (cfg.EnableMemory /\ last.op \in SetOps /\ last.ttl > 0) =>
        /\ mc_get(mem, KeyOf(last), now).found
        /\ mc_get(mem, KeyOf(last), now).item.data = last.data

\* the entry under key is absent from the tier or its ttl has elapsed
Elapsed(tier, key, t) == key \in DOMAIN tier => t > tier[key].expiresAt

\* C7: a get never serves an entry whose ttl has elapsed, swept or not: a hit
\* returns the payload of an entry of its tier that has not expired, and a
\* get whose key is absent or expired in every enabled tier is a miss.
C7_ExpiredIsMiss ==
    [][last'.op \in GetOps =>
        LET key == KeyOf(last')
            rkey == IF key = MemSnapshotKey THEN RedisSnapshotKey ELSE RedisIndexKey(key)
        IN  /\ (last'.err = "" /\ last'.tier = "memory") =>
                    /\ cfg.EnableMemory
                    /\ ~Elapsed(mem, key, now)
                    /\ last'.data = mem[key].data
            /\ (last'.err = "" /\ last'.tier = "redis") =>
                    /\ cfg.EnableRedis
                    /\ ~Elapsed(redis, rkey, now)
            /\ last'.err = "" => last'.tier \in {"memory", "redis"}
            /\ ((cfg.EnableMemory => Elapsed(mem, key, now))
                    /\ (cfg.EnableRedis => Elapsed(redis, rkey, now))) =>
                    last'.err = ErrCacheMiss]_vars

\* a get missed on a snapshot that is still stored but has expired
C7_Witness ==
    /\ last.op = "GetActiveCampaigns"
    /\ last.err = ErrCacheMiss
    /\ MemSnapshotKey \in DOMAIN mem
    /\ now > mem[MemSnapshotKey].expiresAt

\* every posting-list key the model's tables and clients use
AllIndexKeys ==
    IndexLookups \cup UNION {DOMAIN buildIndexes(d, NewDimensionRegistry) : d \in DBs}

\* C8: on a memory-only hybrid cache, right after InvalidateAll every
\* GetActiveCampaigns and every GetCampaignIndex is a cache miss.
C8_InvalidateAllThenMiss ==
    (last.op = "InvalidateAll" /\ cfg.EnableMemory /\ ~cfg.EnableRedis) =>
        /\ \A o \in GetActiveCampaigns(Cache, now) : o.err = ErrCacheMiss
        /\ \A k \in AllIndexKeys :
                \A o \in GetCampaignIndex(Cache, k[1], k[2], now) : o.err = ErrCacheMiss

\* InvalidateAll dropped the entries of a populated memory-only cache
C8_Witness ==
    /\ last.op = "InvalidateAll"
    /\ cfg.EnableMemory
    /\ ~cfg.EnableRedis
    /\ last.dropped > 1
    /\ mem = EmptyMap

\* every GetActiveCampaigns on cache state c at time t returns exactly S
SnapshotIs(c, S, t) ==
    \A o \in GetActiveCampaigns(c, t) : o.err = "" /\ o.data = S

\* C9 as stated: once SetActiveCampaigns(S, ttl) has made S the snapshot,
\* every GetActiveCampaigns returns exactly S until S expires, as long as no
\* SetActiveCampaigns and no InvalidateAll intervenes; a posting-list write of
\* the materialization task never takes the snapshot away.
C9_SnapshotAuthority ==
    [][(/\ cfg.EnableMemory
        /\ MemSnapshotKey \in DOMAIN mem
        /\ SnapshotIs(Cache, mem[MemSnapshotKey].data, now)
        /\ last'.op \notin {"SetActiveCampaigns", "InvalidateAll"}
        /\ now' <= mem[MemSnapshotKey].expiresAt) =>
            SnapshotIs([mem |-> mem', redis |-> redis', stats |-> stats'],
                       mem[MemSnapshotKey].data, now')]_vars

\* C10 as stated: no tier serves a payload after the ttl of the Set that
\* first wrote it has elapsed; a local copy made by a warm-up does not
\* outlive the shared-tier entry it was copied from.
C10_WarmUpWithinOriginalTTL ==
    /\ \A key \in DOMAIN mem : ~mc_get(mem, key, mem[key].firstExp + 1).found
    /\ \A rkey \in DOMAIN redis : redis[rkey].expiresAt <= redis[rkey].firstExp

\* the local tier holds the live snapshot S and every posting list of S, and
\* no materialization task is running
Materialized ==
    /\ cfg.EnableMemory
    /\ tasks = <<>>
    /\ mc_get(mem, MemSnapshotKey, now).found
    /\ LET idx == buildIndexes(mem[MemSnapshotKey].data, registry)
       IN  \A k \in DOMAIN idx :
                /\ mc_get(mem, IndexKey(k[1], k[2]), now).found
                /\ mem[IndexKey(k[1], k[2])].data = idx[k]

\* C1 as stated: for a valid request served from a fully materialized cache,
\* the ids returned through the index are, as a set, the ids obtained by
\* running the matcher over every campaign of the snapshot.
C1_FastPathEqualsFullPath ==
    [][(/\ Materialized
        /\ last'.op = "GetCampaigns"
        /\ ValidParameters(last'.req)
        /\ last'.err = "") =>
            Range(last'.resp) =
                Range(matchingCampaigns(registry, mem[MemSnapshotKey].data,
                                        NormalizeValues(last'.req)))]_vars

C12_GetTransportErrorCounted ==
    [][(last'.op \in GetOps /\ last'.rerr = "redis") =>
            /\ last'.err = ErrCacheMiss
            /\ stats'.Errors = stats.Errors + 1]_vars

\* C13 as stated: a get whose context is cancelled or past its deadline
\* returns an error that is neither a value nor ErrCacheMiss.
C13_CancellationDistinctFromMiss ==
    [][(last'.op \in GetOps /\ last'.rerr = "ctx") =>
            last'.err \notin {"", ErrCacheMiss}]_vars

\* C14 as stated: a get that exceeds the caller's deadline leaves hits,
\* misses and total-ops unchanged.
C14_DeadlineTouchesOnlyErrors ==
    [][(last'.op \in GetOps /\ last'.rerr = "ctx") =>
            /\ stats'.Hits = stats.Hits
            /\ stats'.Misses = stats.Misses
            /\ stats'.TotalOps = stats.TotalOps]_vars

\* C15: hits, misses, errors and total-ops never decrease, total-ops is
\* hits + misses in every state, and a hybrid get adds exactly one to hits
\* (it returned data) or exactly one to misses (it returned ErrCacheMiss).
C15_CountersMonotone ==
    [][/\ stats.TotalOps = stats.Hits + stats.Misses
       /\ stats'.TotalOps = stats'.Hits + stats'.Misses
       /\ stats'.Hits >= stats.Hits
       /\ stats'.Misses >= stats.Misses
       /\ stats'.Errors >= stats.Errors
       /\ stats'.TotalOps >= stats.TotalOps
       /\ last'.op \in GetOps =>
            /\ last'.err \in {"", ErrCacheMiss}
            /\ last'.err = "" =>
                    stats' = [stats EXCEPT !.Hits = @ + 1, !.TotalOps = @ + 1]
            /\ last'.err = ErrCacheMiss =>
                    stats' = [stats EXCEPT !.Misses = @ + 1, !.TotalOps = @ + 1]]_vars

\* gets have hit and missed and a Set has failed in the shared tier
C15_Witness ==
    /\ last.op \in GetOps
    /\ stats.Hits > 0
    /\ stats.Misses > 0
    /\ stats.Errors > 0

\* the statuses the claim gives the tiers, from the cache's fill and the ping
TierStatuses ==
    (IF cfg.EnableMemory
     THEN {IF 10 * Cardinality(DOMAIN mem) > 9 * cfg.MemoryCacheSize
           THEN "degraded" ELSE "healthy"}
     ELSE {})
    \cup
    (IF cfg.EnableRedis
     THEN {IF health.ping.err THEN "unhealthy"
           ELSE IF health.ping.latency > 50 THEN "degraded" ELSE "healthy"}
     ELSE {})

\* C16: the report is healthy iff some tier is enabled and every enabled tier
\* is healthy, degraded iff no enabled tier is unhealthy and at least one is
\* degraded, unhealthy iff an enabled tier is unhealthy or none is enabled;
\* the local tier is degraded exactly when its size is strictly above 90% of
\* max-size, the shared tier exactly when its ping answered in more than 50 ms.
C16_HealthReport ==
    health.done =>
        /\ health.report.Overall = "healthy" <=> TierStatuses = {"healthy"}
        /\ health.report.Overall = "degraded" <=>
                ("unhealthy" \notin TierStatuses /\ "degraded" \in TierStatuses)
        /\ health.report.Overall = "unhealthy" <=>
                ("unhealthy" \in TierStatuses \/ TierStatuses = {})
        /\ health.report.Memory = "degraded" <=>
                (cfg.EnableMemory
                    /\ 10 * Cardinality(DOMAIN mem) > 9 * cfg.MemoryCacheSize)
        /\ health.report.Redis = "degraded" <=>
                (cfg.EnableRedis /\ ~health.ping.err /\ health.ping.latency > 50)

\* a report made with the local tier at exactly 90% and a ping of 51 ms
C16_Witness ==
    /\ health.done
    /\ cfg.EnableMemory
    /\ cfg.EnableRedis
    /\ 10 * Cardinality(DOMAIN mem) = 9 * cfg.MemoryCacheSize
    /\ mem # EmptyMap
    /\ health.ping.latency = 51
    /\ health.report.Memory = "healthy"
    /\ health.report.Overall = "degraded"

\* the step completes the materialization task tasks[i]
Completes(i) ==
    /\ i \in 1..Len(tasks)
    /\ last'.op \in SetOps
    /\ tasks' = Remove(tasks, i)

\* every posting list built from the snapshot is live in the local tier
PostingListsInPlace(campaigns, m, t) ==
    LET idx == buildIndexes(campaigns, registry)
    IN  \A k \in DOMAIN idx :
            /\ mc_get(m, IndexKey(k[1], k[2]), t).found
            /\ m[IndexKey(k[1], k[2])].data = idx[k]

\* C17 as stated: once a materialization task has completed with all its
\* posting lists in place, for every active campaign C of its snapshot and
\* every value v of an include-rule of C on dimension D, GetCampaignIndex(D,
\* normalized v) returns a list that contains C's identifier.
C17_PostingListContainment ==
    [][\A i \in 1..Len(tasks) :
        (/\ Completes(i)
         /\ cfg.EnableMemory
         /\ PostingListsInPlace(tasks[i].campaigns, mem', now)) =>
            \A n \in 1..Len(tasks[i].campaigns) :
                LET C == tasks[i].campaigns[n]
                IN  \A r \in 1..Len(C.Rules) :
                        (IsActive(C) /\ C.Rules[r].RuleType = RuleTypeInclude) =>
                            \A x \in 1..Len(C.Rules[r].Values) :
                                \A o \in GetCampaignIndex(
                                            [mem |-> mem', redis |-> redis',
                                             stats |-> stats'],
                                            C.Rules[r].Dimension,
                                            NormalizeValue(C.Rules[r].Dimension,
                                                           C.Rules[r].Values[x]),
                                            now) :
                                    o.err = "" /\ C.ID \in Range(o.data)]_vars

\* entries snap and idx of one tier were written together: idx is a posting
\* list of the snapshot's payload, first written by a task no earlier than
\* the snapshot was
WrittenTogether(snap, idx, k) ==
    /\ k \in DOMAIN buildIndexes(snap.data, registry)
    /\ idx.data = buildIndexes(snap.data, registry)[k]
    /\ idx.firstExp >= snap.firstExp + IndexGrace

\* C18 as stated, in the local tier: a posting list written together with
\* the snapshot does not expire before the snapshot does.  (The claim asks
\* for strictly later; the clock of the model counts whole minutes, so an
\* equal expiry is let through.)
C18_IndexOutlivesSnapshot ==
    MemSnapshotKey \in DOMAIN mem =>
        \A k \in AllIndexKeys :
            (/\ IndexKey(k[1], k[2]) \in DOMAIN mem
             /\ WrittenTogether(mem[MemSnapshotKey], mem[IndexKey(k[1], k[2])], k)) =>
                mem[IndexKey(k[1], k[2])].expiresAt >= mem[MemSnapshotKey].expiresAt

MissServedFromSource(l) ==
    /\ l.op = "GetCampaigns"
    /\ l.path = "full"
    /\ l.srcReads = 1
    /\ l.err = ""

\* C20: on a cache miss GetActiveCampaignsWithRules returns the source's rows,
\* and returns them before the task it started has made any cache write: the
\* task is pending at its first call and the snapshot in the cache is as the
\* request found it, so no outcome of the task's writes can change the result.
C20_MissReturnsSourceResult ==
    [][MissServedFromSource(last') =>
        /\ last'.all = repoGetActiveCampaignsWithRules
        /\ last'.resp = matchingCampaigns(registry, repoGetActiveCampaignsWithRules,
                                          NormalizeValues(last'.req))
        /\ last'.spawn
        /\ tasks' = Append(tasks, [campaigns |-> repoGetActiveCampaignsWithRules,
                                   pc |-> "snapshot", todo |-> {}])
        /\ redis' = redis
        /\ MemSnapshotKey \in DOMAIN mem' =>
               /\ MemSnapshotKey \in DOMAIN mem
               /\ mem'[MemSnapshotKey] = mem[MemSnapshotKey]]_vars

\* a miss was served from a source that holds campaigns, with both tiers on
C20_Witness ==
    /\ MissServedFromSource(last)
    /\ last.all # <<>>
    /\ last.resp # <<>>
    /\ cfg.EnableMemory /\ cfg.EnableRedis
    /\ tasks # <<>>

\* C22: for every dimension processor and every string v,
\* NormalizeValue(NormalizeValue(v)) = NormalizeValue(v).
C22_NormalizeIdempotent == norm.done => norm.twice = norm.once

\* a value with a blank at each end and a capital was normalized
C22_Witness ==
    /\ norm.done
    /\ norm.value = <<" ", "A", " ">>
    /\ norm.dimension = DimensionState
    /\ norm.once = <<"a">>

\* C21: two calls of MatchesRequest with the same campaign, the same request
\* and the same registry return the same result, whatever happened between
\* them.
C21_MatcherIsPure ==
    [][(/\ matched.done
        /\ matched'.calls = matched.calls + 1
        /\ matched'.registry = matched.registry) =>
            matched'.result = matched.result]_vars

\* the campaign's include-rules on the state dimension
StateIncludes == RulesOf(campaign.Rules, DimensionState, RuleTypeInclude)

\* C24: with the state processor registered, a campaign with include-rules
\* on state is admitted only when one of them matches by the
\* dependency-aware method: the request has a country with state-level
\* targeting and its state is a state of that country.
C24_StateDecidedWithDependencies ==
    (/\ matched.done
     /\ matched.result
     /\ DimensionState \in matched.registry
     /\ StateIncludes # <<>>) =>
        \E i \in 1..Len(StateIncludes) :
            MatchesRuleWithDependencies(StateIncludes[i], request)

\* C27: RegisterCustomDimension never writes the registry after a
\* MatchesRequest has read it.
C27_NoRegistrationAfterMatch ==
    [][registry' # registry => ~matched.done]_vars

\* the campaign c without its rules on the dimensions in D
WithoutDimensions(c, D) ==
    [c EXCEPT !.Rules = SelectSeq(c.Rules, LAMBDA r : r.Dimension \notin D)]

\* C28: when the request's value for a registered dimension is empty, a
\* campaign with an include-rule on the dimension is rejected, and for a
\* campaign with none the dimension passes, exclude-rules or not: the result
\* is the one for the campaign without its rules on that dimension.
C28_EmptyValue ==
    matched.done =>
        \A d \in registry :
            GetValue(d, request) = <<>> =>
                IF IncludesOn(campaign, d) # {}
                THEN ~matched.result
                ELSE matched.result =
                        MatchesRequest(registry, WithoutDimensions(campaign, {d}), request)

\* a request with an empty country was admitted by a campaign that has an
\* exclude-rule on country
C28_Witness ==
    /\ matched.done
    /\ matched.result
    /\ request.Country = <<>>
    /\ ExcludesOn(campaign, DimensionCountry) # {}

\* C29: rules on a dimension without a registered processor are skipped: the
\* result is the one for the campaign without them, so an active campaign
\* with no other rule matches every request.
C29_UnknownDimensionSkipped ==
    matched.done =>
        /\ matched.result =
                MatchesRequest(registry,
                               WithoutDimensions(campaign, AllDimensions \ registry),
                               request)
        /\ (/\ IsActive(campaign)
            /\ \A i \in 1..Len(campaign.Rules) :
                    campaign.Rules[i].Dimension \notin registry) => matched.result

\* an active campaign whose rules are all on the unregistered state dimension
\* was admitted
C29_Witness ==
    /\ matched.done
    /\ matched.result
    /\ Len(campaign.Rules) = MaxRules
    /\ \A i \in 1..Len(campaign.Rules) : campaign.Rules[i].Dimension = DimensionState
    /\ DimensionState \notin registry

Reverse(seq) == [i \in 1..Len(seq) |-> seq[Len(seq) + 1 - i]]

\* the campaign c with its rules in reverse order, with the values of each
\* rule in reverse order, and with one of its rules a second time
Rearranged(c) ==
    {[c EXCEPT !.Rules = Reverse(c.Rules)],
     [c EXCEPT !.Rules = [i \in 1..Len(c.Rules) |->
                            [c.Rules[i] EXCEPT !.Values = Reverse(@)]]]}
    \cup {[c EXCEPT !.Rules = Append(c.Rules, c.Rules[i])] : i \in 1..Len(c.Rules)}
    \cup {[c EXCEPT !.Rules = <<c.Rules[i]>> \o c.Rules] : i \in 1..Len(c.Rules)}

\* C30: MatchesRequest gives the same result when the rules are reordered,
\* when the values in the rules are reordered, and when a rule is repeated.
C30_OrderAndDuplicatesIrrelevant ==
    matched.done =>
        \A c \in Rearranged(campaign) :
            MatchesRequest(registry, c, request) = matched.result

\* a campaign of two different rules, one with two values, was matched
C30_Witness ==
    /\ matched.done
    /\ matched.result
    /\ Len(campaign.Rules) = 2
    /\ campaign.Rules[1] # campaign.Rules[2]
    /\ campaign.Rules[1].Dimension = campaign.Rules[2].Dimension
    /\ Len(campaign.Rules[2].Values) = 2

\* the outcome of the request served last is an outcome GetCampaigns has for
\* the request r in the state the request was served in
SameAsFor(r) ==
    \E o \in GetCampaigns(registry, Cache, r, now) :
        /\ o.err = last'.err
        /\ o.resp = last'.resp
        /\ o.c.mem = mem' /\ o.c.redis = redis' /\ o.c.stats = stats'

\* C23 as stated: a request that passes validation is answered as its
\* normalized form is.
C23_SameAsNormalized ==
    [][(last'.op = "GetCampaigns" /\ Validate(last'.req) = "") =>
            SameAsFor(NormalizeValues(last'.req))]_vars

\* C23: a request that passes validation, and whose normalized form passes it
\* too, is answered as its normalized form is: the case of country and os and
\* the blanks around os and app do not change the campaigns returned.
C23_SameAsValidNormalized ==
    [][(/\ last'.op = "GetCampaigns"
        /\ Validate(last'.req) = ""
        /\ Validate(NormalizeValues(last'.req)) = "") =>
            SameAsFor(NormalizeValues(last'.req))]_vars

\* a request with capitals and a trailing blank was answered with campaigns
C23_Witness ==
    /\ last.op = "GetCampaigns"
    /\ last.err = ""
    /\ last.resp # <<>>
    /\ NormalizeValues(last.req) # last.req
    /\ last.req.OS = sIOSsp

C40_LocalClearUnconditional ==
    last.op = "InvalidateAll" => mem = EmptyMap

\* InvalidateAll found entries in the local tier, the Redis clear failed and
\* left its keys in place
C40_Witness ==
    /\ last.op = "InvalidateAll"
    /\ last.err # ""
    /\ last.dropped > 0
    /\ redis # EmptyMap

\* the parts of the read fan-out, over the get that has just returned:
\* a local hit asks Redis nothing
LocalTierFirst ==
    (last.op \in GetOps /\ last.tier = "memory") => last.rerr = "none"

\* a Redis hit leaves the payload in the local tier for DefaultTTL
WarmedOnSharedHit ==
    (last.op \in GetOps /\ last.tier = "redis" /\ cfg.EnableMemory) =>
        /\ mc_get(mem, KeyOf(last), now).found
        /\ mem[KeyOf(last)].data = last.data
        /\ mem[KeyOf(last)].expiresAt = now + DefaultTTL

\* a Redis miss, or a local miss with Redis disabled, is a miss
MissOnSharedMiss ==
    (last.op \in GetOps /\ last.tier # "memory"
        /\ (last.rerr = "miss" \/ ~cfg.EnableRedis)) =>
            /\ last.err = ErrCacheMiss
            /\ last.tier = "none"

\* C31: GetActiveCampaigns and GetCampaignIndex read the local tier first and
\* Redis only on a local miss; a Redis hit is in the local tier, with the
\* default ttl, when the call returns, so that the next get of the key is a
\* local hit; a Redis miss or a disabled Redis gives a miss.
C31_ReadFanOut ==
    /\ LocalTierFirst
    /\ WarmedOnSharedHit
    /\ MissOnSharedMiss

\* the snapshot is live in the local tier / in Redis / in some enabled tier
LocalSnapshotLive == cfg.EnableMemory /\ mc_get(mem, MemSnapshotKey, now).found
SharedSnapshotLive == cfg.EnableRedis /\ RedisSnapshotKey \in DOMAIN redis
SnapshotLive == LocalSnapshotLive \/ SharedSnapshotLive

\* the step is a request that GetActiveCampaignsWithRules answered
FullPathStep == last'.op = "GetCampaigns" /\ last'.path = "full"

\* C32 as stated: while a live snapshot is in the cache,
\* GetActiveCampaignsWithRules returns it and makes no source call; with no
\* live snapshot it calls the source exactly once.
C32_LiveSnapshotShieldsSource ==
    [][FullPathStep =>
        IF SnapshotLive THEN last'.srcReads = 0 /\ last'.err = ""
        ELSE last'.srcReads = 1]_vars

\* C32, amended: a snapshot live in the local tier is returned with no source
\* call; a snapshot returned with no source call is the one a tier holds
\* live; every other call (no live snapshot, or the Redis read failed) reads
\* the source exactly once.
C32_HitShieldsSource ==
    [][FullPathStep =>
        /\ LocalSnapshotLive =>
                last'.srcReads = 0 /\ last'.all = mem[MemSnapshotKey].data
        /\ last'.srcReads = 0 =>
                /\ SnapshotLive
                /\ last'.err = ""
                /\ ~LocalSnapshotLive =>
                        last'.all = UnmarshalCampaigns(redis[RedisSnapshotKey].data)
        /\ last'.srcReads # 0 => last'.srcReads = 1 /\ ~LocalSnapshotLive
        /\ ~SnapshotLive => last'.srcReads = 1]_vars

\* a request on the full-snapshot path was answered from the cached snapshot
C32_Witness ==
    /\ last.op = "GetCampaigns"
    /\ last.path = "full"
    /\ last.srcReads = 0
    /\ last.all # <<>>

\* the posting list of (d, v) is in no enabled tier: GetCampaignIndex(d, v)
\* can only return an error
LookupFails(d, v) ==
    /\ v # <<>>
    /\ ~(cfg.EnableMemory /\ mc_get(mem, IndexKey(d, v), now).found)
    /\ ~(cfg.EnableRedis /\ RedisIndexKey(IndexKey(d, v)) \in DOMAIN redis)

SomeLookupFails(req) ==
    \/ LookupFails(DimensionCountry, NormalizeValues(req).Country)
    \/ LookupFails(DimensionOS, NormalizeValues(req).OS)
    \/ LookupFails(DimensionApp, NormalizeValues(req).App)

\* C33: a request one of whose posting-list lookups (country, os, app)
\* returns an error is served from the full snapshot, not from the index.
C33_LookupErrorFallsBack ==
    [][(last'.op = "GetCampaigns" /\ last'.path # "none"
            /\ SomeLookupFails(last'.req)) =>
        last'.path = "full"]_vars

\* the snapshot GetActiveCampaigns would return now: the local copy if it is
\* live, else the copy in Redis, else nothing
CachedSnapshot ==
    IF LocalSnapshotLive THEN mem[MemSnapshotKey].data
    ELSE IF SharedSnapshotLive THEN UnmarshalCampaigns(redis[RedisSnapshotKey].data)
    ELSE <<>>

\* campaign id, in the snapshot snap, is active and has an include-rule on d
\* whose normalized values contain v
IndexedBy(snap, id, d, v) ==
    \E n \in 1..Len(snap) :
        /\ snap[n].ID = id
        /\ IsActive(snap[n])
        /\ \E r \in 1..Len(snap[n].Rules) :
            /\ snap[n].Rules[r].Dimension = d
            /\ snap[n].Rules[r].RuleType = RuleTypeInclude
            /\ v \in Range(RuleNormalizeValues(registry, snap[n].Rules[r]))

\* the posting lists the tiers hold live, as <<dimension, value, ids>>
CachedPostingLists ==
    {<<k[1], k[2], mem[IndexKey(k[1], k[2])].data>> :
        k \in {x \in AllIndexKeys :
                cfg.EnableMemory /\ mc_get(mem, IndexKey(x[1], x[2]), now).found}}
    \cup
    {<<k[1], k[2], redis[RedisIndexKey(IndexKey(k[1], k[2]))].data>> :
        k \in {x \in AllIndexKeys :
                RedisIndexKey(IndexKey(x[1], x[2])) \in DOMAIN redis}}

\* C34: an identifier is in the cached posting list of (D, v) only if, in the
\* currently cached snapshot, that campaign is active and has an include-rule
\* on D whose normalized values contain v.
C34_PostingListSound ==
    \A p \in CachedPostingLists :
        \A i \in 1..Len(p[3]) : IndexedBy(CachedSnapshot, p[3][i], p[1], p[2])

\* the same for country and os, while a snapshot is cached
C34_SoundBesideSnapshot ==
    SnapshotLive =>
        \A p \in CachedPostingLists :
            p[1] # DimensionApp =>
                \A i \in 1..Len(p[3]) : IndexedBy(CachedSnapshot, p[3][i], p[1], p[2])

\* the step is one call of the cache that makes exactly one local-tier
\* insert: a Set, or a get answered by Redis with its warm-up
InsertStep ==
    /\ cfg.EnableMemory
    /\ \/ last'.op \in SetOps
       \/ last'.op \in GetOps /\ last'.tier = "redis"

\* C35: when a local-tier insert returns, size() <= max-size; the expired
\* entries are gone, and unexpired entries went only if the tier was still
\* over max-size, and then exactly as many as bring it down to max-size.
C35_InsertBounded ==
    [][InsertStep =>
        LET live == {k \in DOMAIN mem : ~isExpired(mem[k], now)}
                        \cup {KeyOf(last')}
        IN  /\ mc_size(mem') <= cfg.MemoryCacheSize
            /\ \A k \in DOMAIN mem' : ~isExpired(mem'[k], now)
            /\ DOMAIN mem' \subseteq live
            /\ mc_size(mem') = IF Cardinality(live) > cfg.MemoryCacheSize
                               THEN cfg.MemoryCacheSize ELSE Cardinality(live)]_vars

\* an insert into a full tier has returned: the tier is at max-size and an
\* unexpired entry was evicted
C35_Witness ==
    /\ cfg.EnableMemory
    /\ last.op \in SetOps
    /\ mc_size(mem) = cfg.MemoryCacheSize
    /\ KeyOf(last) \notin DOMAIN mem

\* C38: every request that missed the snapshot and read the source with
\* success, on the full-snapshot path or inside getCampaignsByIDs, has
\* started a materialization task.
C38_SourceReadStartsTask ==
    (last.op = "GetCampaigns" /\ last.srcReads > 0 /\ last.err = "") => last.spawn

\* C37: once InvalidateAll has returned with both tiers cleared, no write of
\* work begun before it brings pre-invalidation data back: after the step
\* that follows, GetActiveCampaigns is still a miss.  (Work that begins after
\* the invalidation needs a step to read the source and another to write.)
C37_NoStaleWriteAfterInvalidate ==
    [][(last.op = "InvalidateAll" /\ last.err = "") =>
        \A o \in GetActiveCampaigns([mem |-> mem', redis |-> redis',
                                     stats |-> stats'], now') :
            o.err = ErrCacheMiss]_vars

\* C39: once every materialization task has completed, the cached snapshot
\* and the cached posting lists come from one source read: each posting list
\* is the one buildAndCacheIndexes makes from the cached snapshot.
C39_OneSourceRead ==
    (tasks = <<>> /\ LocalSnapshotLive) =>
        \A k \in AllIndexKeys :
            mc_get(mem, IndexKey(k[1], k[2]), now).found =>
                /\ k \in DOMAIN buildIndexes(mem[MemSnapshotKey].data, registry)
                /\ mem[IndexKey(k[1], k[2])].data =
                        buildIndexes(mem[MemSnapshotKey].data, registry)[k]

\* the goroutines inside the body of a method
Inside == {t \in Threads : mu[t].pc = "inside"}

\* C36: no writer of the local tier (insert with its eviction, clear, sweep)
\* is inside its critical section together with another writer or a reader.
C36_WritersExclusive ==
    \A w \in Inside :
        mu[w].op \in WriterOps => Inside = {w}

\* two readers are inside at once while a writer waits at Lock
C36_Witness ==
    /\ \E r1, r2 \in Inside :
        /\ r1 # r2
        /\ mu[r1].op = "getCampaignIndex"
        /\ mu[r2].op = "size"
    /\ \E w \in Threads : mu[w].pc = "locking" /\ mu[w].op \in WriterOps

====
